---- MODULE Spec2Model ----
(***************************************************************************)
(* radio-browser-api: RadioBrowserClient::search_by_tag over a shared      *)
(* Cache (MemoryCache = tokio Mutex around an LruCache, or the tests'      *)
(* single-slot TestCache), with concurrent callers.                        *)
(***************************************************************************)
EXTENDS Integers, Sequences, FiniteSets, TLC

\* ---------------------------------------------------------------- bounds
MaxCalls == 3          \* search_by_tag calls started in one behaviour
MaxOps   == 4          \* direct Cache::get / Cache::set calls in one behaviour
MaxCap   == 2          \* largest MemoryCache capacity explored
MaxTagLen == 2         \* longest tag whose cache key is composed (SpecKey)
MaxLimit  == 12        \* largest limit whose cache key is composed (SpecKey)

Procs  == {"p1", "p2"}                 \* concurrent callers of one client
NoProc == "none"

\* tags and limits as search_by_tag receives them; a text is a sequence of
\* characters so that format! is a real concatenation
\* the queries callers make: one tag with two limits, two tags with one limit,
\* and a pair whose tag and limit digits run together ("a"+"11", "a1"+"1")
Queries == { [tag |-> <<"a">>,      limit |-> 1],
             [tag |-> <<"a">>,      limit |-> 11],
             [tag |-> <<"a", "1">>, limit |-> 1] }
NoArgs == [tag |-> <<>>, limit |-> 0]

\* what the remote service can answer
Statuses == { 200, 299, 300, 500 }
Bodies   == { "[]", "[s1,s2]", "server error" }
Outcomes ==
       \* send() failed: there is no response
  { [sendOk |-> FALSE, status |-> 0, bodyOk |-> FALSE, body |-> ""] }
       \* a response arrived but reading its body failed
  \cup [sendOk : {TRUE}, status : Statuses, bodyOk : {FALSE}, body : {""}]
       \* the exchange completed
  \cup [sendOk : {TRUE}, status : Statuses, bodyOk : {TRUE}, body : Bodies]
NoOutcome == [sendOk |-> FALSE, status |-> 0, bodyOk |-> FALSE,
              body |-> "pending"]

\* ------------------------------------------------- Option / Result values
None      == [present |-> FALSE, val |-> <<>>]
Some(v)   == [present |-> TRUE,  val |-> v]

Ok(v)     == [ok |-> TRUE,  kind |-> "Ok",           val |-> v,    msg |-> ""]
RequestError ==
  [ok |-> FALSE, kind |-> "RequestError", val |-> <<>>, msg |-> "reqwest"]
ApiError(s) == [ok |-> FALSE, kind |-> "ApiError",  val |-> <<>>, msg |-> s]
NoResult  == [ok |-> FALSE, kind |-> "Pending",      val |-> <<>>, msg |-> ""]

\* ------------------------------------------------------ string formatting
DigitChar(d) == <<"0", "1", "2", "3", "4", "5", "6", "7", "8", "9">>[d + 1]

RECURSIVE Display(_)
\* Display of a usize: decimal digits, most significant first
Display(n) ==
  IF n < 10 THEN <<DigitChar(n)>>
  ELSE Display(n \div 10) \o <<DigitChar(n % 10)>>

\* variant: tag and limit are joined without the ':' between them
CacheKey_NoSeparator(tag, limit) ==
  <<"s", "e", "a", "r", "c", "h", ":">> \o tag \o Display(limit)

\* variant: the limit is left out of the key
CacheKey_NoLimit(tag, limit) ==
  <<"s", "e", "a", "r", "c", "h", ":">> \o tag

\* format!("search:{}:{}", tag, limit)
CacheKey(tag, limit) ==
  <<"s", "e", "a", "r", "c", "h", ":">> \o tag \o <<":">> \o Display(limit)

BaseUrl == <<"https://de1.api.radio-browser.info">>

\* format!("{}/json/stations/search?tag={}&limit={}", base_url, tag, limit)
SearchUrl(tag, limit) ==
  BaseUrl \o <<"/json/stations/search?tag=">> \o tag
          \o <<"&", "limit=">> \o Display(limit)

\* ------------------------------------------------------------- LruCache
\* An LruCache is a sequence of entries, most recently used first.
Entry(k, v) == [key |-> k, val |-> v]

KeysOf(c) == { c[i].key : i \in 1..Len(c) }

IndexOf(c, k) == CHOOSE i \in 1..Len(c) : c[i].key = k

Without(c, i) == SubSeq(c, 1, i - 1) \o SubSeq(c, i + 1, Len(c))

\* variant: an empty station list is taken for "no entry"
LruGetValue_EmptyIsAbsent(c, k) ==
  IF k \in KeysOf(c) /\ c[IndexOf(c, k)].val # <<>>
  THEN Some(c[IndexOf(c, k)].val) ELSE None

\* LruCache::get(key).cloned(): the value, if held
LruGetValue(c, k) ==
  IF k \in KeysOf(c) THEN Some(c[IndexOf(c, k)].val) ELSE None

\* variant: get leaves the recency order alone (a peek)
LruGetOrder_NoPromote(c, k) == c

\* variant: a key not held gets an empty entry (get-or-insert)
LruGetOrder_InsertDefault(c, k) ==
  IF k \in KeysOf(c)
  THEN <<c[IndexOf(c, k)]>> \o Without(c, IndexOf(c, k))
  ELSE <<Entry(k, <<>>)>> \o c

\* LruCache::get moves a found entry to the head of the list
LruGetOrder(c, k) ==
  IF k \in KeysOf(c)
  THEN <<c[IndexOf(c, k)]>> \o Without(c, IndexOf(c, k))
  ELSE c

\* variant: a full cache keeps growing
LruPut_NoEvict(c, cap, k, v) ==
  IF k \in KeysOf(c)
  THEN <<Entry(k, v)>> \o Without(c, IndexOf(c, k))
  ELSE <<Entry(k, v)>> \o c

\* variant: a full cache refuses the new key
LruPut_DropNew(c, cap, k, v) ==
  IF k \in KeysOf(c)
  THEN <<Entry(k, v)>> \o Without(c, IndexOf(c, k))
  ELSE IF Len(c) = cap THEN c ELSE <<Entry(k, v)>> \o c

\* variant: a key already held keeps its old value (insert-if-absent)
LruPut_KeepOld(c, cap, k, v) ==
  IF k \in KeysOf(c)
  THEN <<c[IndexOf(c, k)]>> \o Without(c, IndexOf(c, k))
  ELSE IF Len(c) = cap
       THEN <<Entry(k, v)>> \o SubSeq(c, 1, Len(c) - 1)
       ELSE <<Entry(k, v)>> \o c

\* variant: a key already held gets the new value where it stands
LruPut_InPlace(c, cap, k, v) ==
  IF k \in KeysOf(c)
  THEN [c EXCEPT ![IndexOf(c, k)] = Entry(k, v)]
  ELSE IF Len(c) = cap
       THEN <<Entry(k, v)>> \o SubSeq(c, 1, Len(c) - 1)
       ELSE <<Entry(k, v)>> \o c

\* LruCache::put: update in place and move to the head, or insert at the
\* head after dropping the tail of a full cache (cap >= 1)
LruPut(c, cap, k, v) ==
  IF k \in KeysOf(c)
  THEN <<Entry(k, v)>> \o Without(c, IndexOf(c, k))
  ELSE IF Len(c) = cap
       THEN <<Entry(k, v)>> \o SubSeq(c, 1, Len(c) - 1)
       ELSE <<Entry(k, v)>> \o c

\* ------------------------------------------------------- fetch_stations
\* variant: every status from 200 up counts as success
IsSuccess_NoUpperBound(status) == status >= 200

\* StatusCode::is_success
IsSuccess(status) == status >= 200 /\ status < 300

\* serde_json decoding of a body into Vec<RadioStation>
Decode(body) ==
  CASE body = "[]"      -> Some(<<>>)
    [] body = "[s1,s2]" -> Some(<<"s1", "s2">>)
    [] OTHER            -> None

\* response.json().await? : a body that cannot be read or decoded is a
\* reqwest::Error, converted by #[from] into RequestError
JsonResult(o) ==
  IF o.bodyOk /\ Decode(o.body).present
  THEN Ok(Decode(o.body).val)
  ELSE RequestError

\* Err(ApiError(response.text().await?))
TextResult(o) == IF o.bodyOk THEN ApiError(o.body) ELSE RequestError

FetchStations(o) ==
  IF ~o.sendOk THEN RequestError
  ELSE IF ~IsSuccess(o.status) THEN TextResult(o)
  ELSE JsonResult(o)

\* ---------------------------------------------------------------- state
VARIABLES
  kind,        \* which Cache implementation is in use
  capacity,    \* MemoryCache::new(capacity)
  track,       \* which history the behaviour records: "hits" for the calls
               \* that follow a success, "errors" for those that follow a
               \* failure
  cache,       \* MemoryCache.cache: the LruCache
  data,        \* TestCache.data
  lock,        \* holder of the cache's mutex, or NoProc
  \* callers of search_by_tag
  pc,          \* where each caller is inside search_by_tag
  args,        \* (tag, limit) of the call in progress
  cache_key,   \* local cache_key
  cached,      \* what self.cache.get returned
  url,         \* local url, once built
  response,    \* how the exchange ended, once it has
  stations,    \* local stations, once fetched
  result,      \* the call's return value
  reqs,        \* transport requests issued by the call in progress
  sets,        \* Cache.set calls made by the call in progress
  calls,       \* calls started so far
  everOk,      \* query -> the value of its most recent successful call
  quiet,       \* queries with no Cache.set since their last success
  prevOk,      \* everOk of the call's query when the call was made
  undisturbed, \* a success precedes the call and no set ran up to its lookup
  noSet,       \* no other caller's Cache.set has run since the call was made
  errState,    \* query -> "none", "failed" (a call for it returned an error)
               \* or "quiet" (and no Cache.set has run since that call began)
  afterErr,    \* errState of the call's query when the call was made, "quiet"
               \* only while no set has run up to the call's lookup
  \* direct callers of Cache::get / Cache::set on a MemoryCache
  mpc,         \* where each direct caller is
  mkey,        \* key argument
  mval,        \* value argument of set
  mret,        \* what the last get returned
  ops,         \* direct calls started so far
  clock,       \* number of accesses (set, or get that found) so far
  lastAccess,  \* key -> clock value of its most recent access
  lastVal,     \* key -> the value its most recent set wrote
  seqCache     \* the LruCache run one call at a time, in lock order

cfgVars    == <<kind, capacity, track>>
storeVars  == <<cache, data, lock>>
callVars   == <<args, cache_key, cached, url, response, stations, result,
                reqs, sets>>
histVars   == <<everOk, quiet, prevOk, undisturbed, noSet, errState, afterErr>>
clientVars == <<pc, callVars, calls, histVars>>
memVars    == <<mpc, mkey, mval, mret, ops, clock, lastAccess, lastVal,
                seqCache>>

vars == <<cfgVars, storeVars, clientVars, memVars>>

Hits == track = "hits"
Errs == track = "errors"

AllKeys == { CacheKey(q.tag, q.limit) : q \in Queries }
Values  == { Decode(b).val : b \in { x \in Bodies : Decode(x).present } }

InitStore ==
  /\ cache = <<>>
  /\ data = None
  /\ lock = NoProc

InitClient ==
  /\ pc = [p \in Procs |-> "idle"]
  /\ args = [p \in Procs |-> NoArgs]
  /\ cache_key = [p \in Procs |-> <<>>]
  /\ cached = [p \in Procs |-> None]
  /\ url = [p \in Procs |-> <<>>]
  /\ response = [p \in Procs |-> NoOutcome]
  /\ stations = [p \in Procs |-> <<>>]
  /\ result = [p \in Procs |-> NoResult]
  /\ reqs = [p \in Procs |-> 0]
  /\ sets = [p \in Procs |-> 0]
  /\ calls = 0
  /\ everOk = [q \in Queries |-> None]
  /\ quiet = {}
  /\ prevOk = [p \in Procs |-> None]
  /\ undisturbed = [p \in Procs |-> FALSE]
  /\ noSet = [p \in Procs |-> FALSE]
  /\ errState = [q \in Queries |-> "none"]
  /\ afterErr = [p \in Procs |-> "none"]

InitMem ==
  /\ mpc = [p \in Procs |-> "idle"]
  /\ mkey = [p \in Procs |-> <<>>]
  /\ mval = [p \in Procs |-> <<>>]
  /\ mret = [p \in Procs |-> None]
  /\ ops = 0
  /\ clock = 0
  /\ lastAccess = [k \in AllKeys |-> 0]
  /\ lastVal = [k \in AllKeys |-> <<>>]
  /\ seqCache = <<>>

\* RadioBrowserClient with either cache behind `Arc<dyn Cache>`
InitConfig ==
  /\ kind \in {"MemoryCache", "TestCache"}
  /\ capacity \in 1..MaxCap
  /\ (kind = "TestCache" => capacity = 1)
  /\ InitStore /\ InitClient /\ InitMem

Init == InitConfig /\ Hits

\* ------------------------------------------------------------ the mutex
\* variant: lock() returns a guard whether or not another guard is alive
CanLock_Always(p) == TRUE

\* Mutex::lock().await resolves for p only while no guard is alive
CanLock(p) == lock = NoProc

\* variant: get keeps its guard alive after it has returned
AfterGetGuard_Kept(p) == p

\* the holder once `self.cache.lock().await.get(key).cloned()` is over: the
\* guard is a temporary of that statement
AfterGetGuard(p) == NoProc

\* variant: set keeps its guard alive after it has returned
AfterSetGuard_Kept(p) == p

\* the holder once `self.cache.lock().await.put(key, value);` is over
AfterSetGuard(p) == NoProc

\* ------------------------------------------------------ Cache trait impls
\* Cache::get as the client sees it
CacheGetValue(p) ==
  IF kind = "MemoryCache" THEN LruGetValue(cache, cache_key[p]) ELSE data

\* variant: the hit does not return early
AfterGet_NoShortCircuit(opt) == "miss"

\* where search_by_tag goes after `if let Some(cached) = ...`
AfterGet(opt) == IF opt.present THEN "done" ELSE "miss"

\* variant: a failed fetch is swallowed and the (empty) default is used
AfterFetch_IgnoreError(r) == "set_wait"

\* variant: a failed fetch is retried
AfterFetch_Retry(r) == IF r.ok THEN "set_wait" ELSE "miss"

\* where search_by_tag goes after `self.fetch_stations(&url).await?`
AfterFetch(r) == IF r.ok THEN "set_wait" ELSE "done"

\* ------------------------------------------------- search_by_tag actions
\* search_by_tag is entered: cache_key is composed
Call(p, q) ==
  LET tag == q.tag
      limit == q.limit
  IN
  /\ pc[p] = "idle"
  /\ calls < MaxCalls
  /\ calls' = calls + 1
  /\ args' = [args EXCEPT ![p] = q]
  /\ cache_key' = [cache_key EXCEPT ![p] = CacheKey(tag, limit)]
  /\ prevOk' = [prevOk EXCEPT ![p] = IF Hits THEN everOk[q] ELSE @]
  /\ undisturbed' = [undisturbed EXCEPT ![p] = Hits /\ q \in quiet]
  /\ noSet' = [noSet EXCEPT ![p] = Errs]
  /\ afterErr' = [afterErr EXCEPT ![p] = IF Errs THEN errState[q] ELSE @]
  /\ pc' = [pc EXCEPT ![p] = "get_wait"]
  /\ UNCHANGED <<cached, url, response, stations, result, reqs, sets, everOk,
                 quiet, errState>>
  /\ UNCHANGED <<cfgVars, storeVars, memVars>>

\* self.cache.lock().await inside get
GetLock(p) ==
  /\ pc[p] = "get_wait"
  /\ CanLock(p)
  /\ lock' = p
  /\ pc' = [pc EXCEPT ![p] = "get_locked"]
  /\ UNCHANGED <<cache, data, callVars, calls, histVars>>
  /\ UNCHANGED <<cfgVars, memVars>>

\* .get(key).cloned() under the guard, the guard dropped, and the
\* `if let Some(cached)` of search_by_tag
CacheGet(p) ==
  LET opt == CacheGetValue(p) IN
  /\ pc[p] = "get_locked"
  /\ lock = p
  /\ lock' = AfterGetGuard(p)
  /\ cache' = IF kind = "MemoryCache"
              THEN LruGetOrder(cache, cache_key[p]) ELSE cache
  /\ cached' = [cached EXCEPT ![p] = opt]
  /\ pc' = [pc EXCEPT ![p] = AfterGet(opt)]
  /\ result' = [result EXCEPT ![p] =
                  IF AfterGet(opt) = "done" THEN Ok(opt.val) ELSE @]
  /\ everOk' = IF Hits /\ AfterGet(opt) = "done"
               THEN [everOk EXCEPT ![args[p]] = Some(opt.val)] ELSE everOk
  /\ quiet' = IF Hits /\ AfterGet(opt) = "done"
              THEN quiet \cup {args[p]} ELSE quiet
  /\ UNCHANGED <<data, args, cache_key, url, response, stations, reqs, sets,
                 calls, prevOk, undisturbed, noSet, errState, afterErr>>
  /\ UNCHANGED <<cfgVars, memVars>>

\* the url is built and self.client.get(url).send() is issued
SendRequest(p) ==
  /\ pc[p] = "miss"
  /\ url' = [url EXCEPT ![p] = SearchUrl(args[p].tag, args[p].limit)]
  /\ reqs' = [reqs EXCEPT ![p] = @ + 1]
  /\ pc' = [pc EXCEPT ![p] = "fetching"]
  /\ UNCHANGED <<args, cache_key, cached, response, stations, result, sets,
                 calls, histVars>>
  /\ UNCHANGED <<cfgVars, storeVars, memVars>>

\* the exchange ends with outcome o; fetch_stations classifies it and `?`
\* returns an error from search_by_tag
Respond(p, o) ==
  LET r == FetchStations(o) IN
  /\ pc[p] = "fetching"
  /\ pc' = [pc EXCEPT ![p] = AfterFetch(r)]
  /\ response' = [response EXCEPT ![p] = o]
  /\ stations' = [stations EXCEPT ![p] = IF r.ok THEN r.val ELSE @]
  /\ result' = [result EXCEPT ![p] = IF AfterFetch(r) = "done" THEN r ELSE @]
  /\ errState' = IF r.ok \/ ~Errs THEN errState
                 ELSE [errState EXCEPT ![args[p]] =
                         IF noSet[p] \/ @ = "quiet" THEN "quiet" ELSE "failed"]
  /\ UNCHANGED <<args, cache_key, cached, url, reqs, sets, calls, everOk,
                 quiet, prevOk, undisturbed, noSet, afterErr>>
  /\ UNCHANGED <<cfgVars, storeVars, memVars>>

\* self.cache.lock().await inside set
SetLock(p) ==
  /\ pc[p] = "set_wait"
  /\ CanLock(p)
  /\ lock' = p
  /\ pc' = [pc EXCEPT ![p] = "set_locked"]
  /\ UNCHANGED <<cache, data, callVars, calls, histVars>>
  /\ UNCHANGED <<cfgVars, memVars>>

\* .put(key, value) under the guard, the guard dropped, Ok(stations)
CacheSet(p) ==
  /\ pc[p] = "set_locked"
  /\ lock = p
  /\ lock' = AfterSetGuard(p)
  /\ cache' = IF kind = "MemoryCache"
              THEN LruPut(cache, capacity, cache_key[p], stations[p])
              ELSE cache
  /\ data' = IF kind = "TestCache" THEN Some(stations[p]) ELSE data
  /\ sets' = [sets EXCEPT ![p] = @ + 1]
  /\ result' = [result EXCEPT ![p] = Ok(stations[p])]
  /\ pc' = [pc EXCEPT ![p] = "done"]
  /\ everOk' = IF Hits THEN [everOk EXCEPT ![args[p]] = Some(stations[p])]
               ELSE everOk
  /\ quiet' = IF Hits THEN {args[p]} ELSE quiet
  /\ undisturbed' = [r \in Procs |->
                       IF r # p /\ pc[r] \in {"get_wait", "get_locked"}
                       THEN FALSE ELSE undisturbed[r]]
  /\ noSet' = [r \in Procs |-> IF r # p THEN FALSE ELSE noSet[r]]
  /\ errState' = [q \in Queries |->
                    IF errState[q] = "quiet" THEN "failed" ELSE errState[q]]
  /\ afterErr' = [r \in Procs |->
                    IF r # p /\ pc[r] \in {"get_wait", "get_locked"}
                       /\ afterErr[r] = "quiet"
                    THEN "failed" ELSE afterErr[r]]
  /\ UNCHANGED <<args, cache_key, cached, url, response, stations, reqs,
                 calls, prevOk>>
  /\ UNCHANGED <<cfgVars, memVars>>

\* the caller has its result; the call's locals are gone
Return(p) ==
  /\ pc[p] = "done"
  /\ pc' = [pc EXCEPT ![p] = "idle"]
  /\ args' = [args EXCEPT ![p] = NoArgs]
  /\ cache_key' = [cache_key EXCEPT ![p] = <<>>]
  /\ cached' = [cached EXCEPT ![p] = None]
  /\ url' = [url EXCEPT ![p] = <<>>]
  /\ response' = [response EXCEPT ![p] = NoOutcome]
  /\ stations' = [stations EXCEPT ![p] = <<>>]
  /\ result' = [result EXCEPT ![p] = NoResult]
  /\ reqs' = [reqs EXCEPT ![p] = 0]
  /\ sets' = [sets EXCEPT ![p] = 0]
  /\ prevOk' = [prevOk EXCEPT ![p] = None]
  /\ undisturbed' = [undisturbed EXCEPT ![p] = FALSE]
  /\ noSet' = [noSet EXCEPT ![p] = FALSE]
  /\ afterErr' = [afterErr EXCEPT ![p] = "none"]
  /\ UNCHANGED <<calls, everOk, quiet, errState>>
  /\ UNCHANGED <<cfgVars, storeVars, memVars>>

Next ==
  \/ \E p \in Procs, q \in Queries : Call(p, q)
  \/ \E p \in Procs : GetLock(p)
  \/ \E p \in Procs : CacheGet(p)
  \/ \E p \in Procs : SendRequest(p)
  \/ \E p \in Procs, o \in Outcomes : Respond(p, o)
  \/ \E p \in Procs : SetLock(p)
  \/ \E p \in Procs : CacheSet(p)
  \/ \E p \in Procs : Return(p)

Spec == Init /\ [][Next]_vars

\* the same client, the history of failed calls recorded
InitErr == InitConfig /\ capacity = 1 /\ Errs

SpecErr == InitErr /\ [][Next]_vars

\* callers sharing one MemoryCache, no history recorded. Every step inside a
\* call goes on once it can: the runtime polls a ready future, every
\* transport request completes, and tokio's Mutex hands the lock to its
\* waiters in turn, so a caller that can lock again and again does lock.
\* Nothing obliges a caller to make a call.
InitFair ==
  /\ kind = "MemoryCache"
  /\ capacity \in 1..MaxCap
  /\ track = "none"
  /\ InitStore /\ InitClient /\ InitMem

\* the calls made and the ways an exchange ends: two queries with two keys;
\* no response, a decodable success, a non-success
FairQueries  == { q \in Queries : q.limit = 1 }
FairOutcomes ==
  { o \in Outcomes : \/ ~o.sendOk
                     \/ o.bodyOk /\ o.status = 200 /\ o.body = "[s1,s2]"
                     \/ o.bodyOk /\ o.status = 500 /\ o.body = "server error" }

NextFair ==
  \/ \E p \in Procs, q \in FairQueries : Call(p, q)
  \/ \E p \in Procs : GetLock(p)
  \/ \E p \in Procs : CacheGet(p)
  \/ \E p \in Procs : SendRequest(p)
  \/ \E p \in Procs, o \in FairOutcomes : Respond(p, o)
  \/ \E p \in Procs : SetLock(p)
  \/ \E p \in Procs : CacheSet(p)
  \/ \E p \in Procs : Return(p)

Fairness ==
  \A p \in Procs :
    /\ SF_vars(GetLock(p))
    /\ WF_vars(CacheGet(p))
    /\ WF_vars(SendRequest(p))
    /\ WF_vars(\E o \in FairOutcomes : Respond(p, o))
    /\ SF_vars(SetLock(p))
    /\ WF_vars(CacheSet(p))

SpecFair == InitFair /\ [][NextFair]_vars /\ Fairness

\* ------------------------------------- MemoryCache used directly (SpecCache)
\* Cache::get(key) is called and self.cache.lock().await returns the guard
MemGetLock(p, k) ==
  /\ mpc[p] = "idle"
  /\ ops < MaxOps
  /\ CanLock(p)
  /\ lock' = p
  /\ ops' = ops + 1
  /\ mkey' = [mkey EXCEPT ![p] = k]
  /\ mpc' = [mpc EXCEPT ![p] = "get_locked"]
  /\ seqCache' = LruGetOrder(seqCache, k)
  /\ UNCHANGED <<cache, data, mval, mret, clock, lastAccess, lastVal>>
  /\ UNCHANGED <<cfgVars, clientVars>>

\* Cache::set(key, value) is called and self.cache.lock().await returns the
\* guard
MemSetLock(p, k, v) ==
  /\ mpc[p] = "idle"
  /\ ops < MaxOps
  /\ CanLock(p)
  /\ lock' = p
  /\ ops' = ops + 1
  /\ mkey' = [mkey EXCEPT ![p] = k]
  /\ mval' = [mval EXCEPT ![p] = v]
  /\ mret' = [mret EXCEPT ![p] = None]
  /\ mpc' = [mpc EXCEPT ![p] = "set_locked"]
  /\ seqCache' = LruPut(seqCache, capacity, k, v)
  /\ UNCHANGED <<cache, data, clock, lastAccess, lastVal>>
  /\ UNCHANGED <<cfgVars, clientVars>>

\* .get(key).cloned(), the guard dropped
MemGet(p) ==
  LET found == mkey[p] \in KeysOf(cache) IN
  /\ mpc[p] = "get_locked"
  /\ lock = p
  /\ lock' = AfterGetGuard(p)
  /\ mret' = [mret EXCEPT ![p] = LruGetValue(cache, mkey[p])]
  /\ cache' = LruGetOrder(cache, mkey[p])
  /\ clock' = IF found THEN clock + 1 ELSE clock
  /\ lastAccess' = IF found THEN [lastAccess EXCEPT ![mkey[p]] = clock + 1]
                            ELSE lastAccess
  /\ mpc' = [mpc EXCEPT ![p] = "idle"]
  /\ UNCHANGED <<data, mkey, mval, ops, lastVal, seqCache>>
  /\ UNCHANGED <<cfgVars, clientVars>>

\* .put(key, value), the guard dropped
MemSet(p) ==
  /\ mpc[p] = "set_locked"
  /\ lock = p
  /\ lock' = AfterSetGuard(p)
  /\ cache' = LruPut(cache, capacity, mkey[p], mval[p])
  /\ clock' = clock + 1
  /\ lastAccess' = [lastAccess EXCEPT ![mkey[p]] = clock + 1]
  /\ mpc' = [mpc EXCEPT ![p] = "idle"]
  /\ lastVal' = [lastVal EXCEPT ![mkey[p]] = mval[p]]
  /\ UNCHANGED <<data, mkey, mval, mret, ops, seqCache>>
  /\ UNCHANGED <<cfgVars, clientVars>>

InitCache ==
  /\ kind = "MemoryCache"
  /\ capacity \in 1..MaxCap
  /\ Hits
  /\ InitStore /\ InitClient /\ InitMem

NextCache ==
  \/ \E p \in Procs, k \in AllKeys : MemGetLock(p, k)
  \/ \E p \in Procs, k \in AllKeys, v \in Values : MemSetLock(p, k, v)
  \/ \E p \in Procs : MemGet(p)
  \/ \E p \in Procs : MemSet(p)

SpecCache == InitCache /\ [][NextCache]_vars

\* ------------------------------------------ cache key composition (SpecKey)
\* tags over a letter, the separator and a digit, the empty tag included
TagChars == {"a", ":", "1"}
KeyTags  == UNION { [1..n -> TagChars] : n \in 0..MaxTagLen }
KeyLimits == 0..MaxLimit

\* the first statement of search_by_tag, for any tag and limit, once per
\* caller
Compose(p, tag, limit) ==
  /\ pc[p] = "idle"
  /\ args[p] = NoArgs
  /\ args' = [args EXCEPT ![p] = [tag |-> tag, limit |-> limit]]
  /\ cache_key' = [cache_key EXCEPT ![p] = CacheKey(tag, limit)]
  /\ UNCHANGED <<pc, cached, url, response, stations, result, reqs, sets,
                 calls, histVars>>
  /\ UNCHANGED <<cfgVars, storeVars, memVars>>

InitKey ==
  /\ kind = "MemoryCache"
  /\ capacity = 1
  /\ Hits
  /\ InitStore /\ InitClient /\ InitMem

\* the callers compose one after the other, p1 first
NextKey ==
  \E p \in Procs :
    /\ args[p] = NoArgs
    /\ p = "p1" \/ args["p1"] # NoArgs
    /\ \E t \in KeyTags, l \in KeyLimits : Compose(p, t, l)

SpecKey == InitKey /\ [][NextKey]_vars

\* =================================================================== claims
\* the exchange of caller p completed: a status and a whole body arrived
Completed(p) == response[p].sendOk /\ response[p].bodyOk

\* the status of caller p's response is outside 200..299
NonSuccess(p) == response[p].status < 200 \/ response[p].status > 299

\* the cache in use holds value v under key k
Holds(k, v) ==
  IF kind = "MemoryCache"
  THEN \E i \in 1..Len(cache) : cache[i] = Entry(k, v)
  ELSE data = Some(v)

\* C1: whenever Cache.get returned a present value, the call is over, its
\* result is exactly that value as success, and it issued no transport
\* request (no url was even built), for either cache implementation.
C1_HitShortCircuit ==
  \A p \in Procs :
    cached[p].present =>
      /\ pc[p] = "done"
      /\ result[p] = Ok(cached[p].val)
      /\ reqs[p] = 0
      /\ url[p] = <<>>

C1_Witness ==
  \E p \in Procs :
    cached[p].present /\ pc[p] = "done" /\ cached[p].val # <<>>

C3_MissReturn ==
  \A p \in Procs :
    /\ sets[p] <= 1
    /\ (pc[p] = "done" /\ result[p].ok /\ ~cached[p].present) =>
         /\ sets[p] = 1
         /\ reqs[p] = 1
         /\ Decode(response[p].body).present
         /\ result[p] = Ok(Decode(response[p].body).val)

C3_SetStores ==
  \A p \in Procs :
    (pc[p] = "set_locked" /\ pc'[p] = "done") =>
      (IF kind = "MemoryCache"
       THEN \E i \in 1..Len(cache') :
              cache'[i] = Entry(CacheKey(args[p].tag, args[p].limit),
                                Decode(response[p].body).val)
       ELSE data' = Some(Decode(response[p].body).val))

C3_EmptyIsHit ==
  \A p \in Procs :
    (pc[p] = "get_locked" /\ pc'[p] # "get_locked"
       /\ Holds(CacheKey(args[p].tag, args[p].limit), <<>>)) =>
      /\ pc'[p] = "done"
      /\ result'[p] = Ok(<<>>)
      /\ reqs'[p] = 0

C3_EmptyCached ==
  /\ [](C3_MissReturn)
  /\ [][C3_SetStores /\ C3_EmptyIsHit]_vars

C3_Witness ==
  \E p \in Procs :
    /\ pc[p] = "done" /\ cached[p] = Some(<<>>) /\ result[p] = Ok(<<>>)
    /\ prevOk[p] = Some(<<>>) /\ reqs[p] = 0 /\ kind = "MemoryCache"

\* C4: a MemoryCache never holds more distinct keys than its capacity, and
\* never one key twice, whatever gets and sets have run.
C4_CapacityBound ==
  /\ Cardinality(KeysOf(cache)) <= capacity
  /\ Cardinality(KeysOf(cache)) = Len(cache)

\* a full cache that has already evicted a key
C4_Witness ==
  /\ Len(cache) = capacity
  /\ \E k \in AllKeys : lastAccess[k] > 0 /\ k \notin KeysOf(cache)

\* the held key whose most recent access is oldest
Oldest(c) ==
  CHOOSE k \in KeysOf(c) : \A j \in KeysOf(c) : lastAccess[k] <= lastAccess[j]

\* C5: a set of a key not yet present on a full MemoryCache (capacity >= 1)
\* evicts exactly the key whose most recent access is oldest, keeps every
\* other entry with its value, and holds the new key with the new value.
C5_SetStep ==
  \A p \in Procs :
    (mpc[p] = "set_locked" /\ mpc'[p] = "idle" /\ capacity >= 1
       /\ Len(cache) = capacity /\ mkey[p] \notin KeysOf(cache)) =>
      /\ KeysOf(cache') = (KeysOf(cache) \ {Oldest(cache)}) \cup {mkey[p]}
      /\ \A i \in 1..Len(cache) :
           cache[i].key # Oldest(cache) =>
             \E j \in 1..Len(cache') : cache'[j] = cache[i]
      /\ \E j \in 1..Len(cache') : cache'[j] = Entry(mkey[p], mval[p])

C5_EvictsLru == [][C5_SetStep]_vars

\* capacity 2: k1 set first, k2 set second, k1 found by a get, then a third
\* key set: k2 is gone and k1 is still held
C5_Witness ==
  \E p \in Procs, k1, k2 \in AllKeys :
    /\ capacity = 2 /\ Len(cache) = 2 /\ clock = 4
    /\ mret[p].present /\ mkey[p] = k1 /\ mpc[p] = "idle"
    /\ lastAccess[k1] = 3 /\ lastAccess[k2] = 2
    /\ k1 \in KeysOf(cache) /\ k2 \notin KeysOf(cache)

\* C7: on a miss, a completed exchange with a status outside 200..299 makes
\* the call return ApiError carrying the response body text.
C7_NonSuccessIsApiError ==
  \A p \in Procs :
    (pc[p] = "done" /\ reqs[p] > 0 /\ Completed(p) /\ NonSuccess(p)) =>
      result[p] = ApiError(response[p].body)

C7_Witness ==
  \E p \in Procs :
    /\ pc[p] = "done" /\ Completed(p) /\ response[p].status = 300
    /\ response[p].body = "[]" /\ result[p] = ApiError("[]")

\* C8: on a miss, a completed exchange with a success status whose body does
\* not decode makes the call return ApiError, not RequestError.
C8_UndecodableIsApiError ==
  \A p \in Procs :
    (pc[p] = "done" /\ reqs[p] > 0 /\ Completed(p) /\ ~NonSuccess(p)
       /\ ~Decode(response[p].body).present) =>
      result[p].kind = "ApiError"

\* the exchange of caller p failed: no response, no whole body, a status
\* outside 200..299, or a body that does not decode
FetchFailed(p) ==
  \/ ~response[p].sendOk
  \/ ~response[p].bodyOk
  \/ NonSuccess(p)
  \/ ~Decode(response[p].body).present

\* C9: once the exchange of a call has failed, the call is over with an
\* error: never a success, whatever the cache held before, and without
\* having touched the cache again.
C9_FailureIsError ==
  \A p \in Procs :
    (response[p] # NoOutcome /\ FetchFailed(p)) =>
      /\ pc[p] = "done"
      /\ ~result[p].ok
      /\ result[p].kind \in {"RequestError", "ApiError"}

\* a failed fetch for a query that had succeeded before
C9_Witness ==
  \E p \in Procs :
    /\ pc[p] = "done" /\ response[p] # NoOutcome /\ FetchFailed(p)
    /\ prevOk[p].present /\ ~result[p].ok

\* C10: a call issues at most one transport request; a call that ended in
\* an error after a request issued exactly one.
C10_AtMostOneRequest ==
  \A p \in Procs :
    /\ reqs[p] <= 1
    /\ (response[p] # NoOutcome) => reqs[p] = 1

C10_Witness ==
  \E p \in Procs : pc[p] = "done" /\ ~result[p].ok /\ reqs[p] = 1

\* C11: the keys two callers compose are equal exactly when their (tag,
\* limit) pairs are equal, also for tags that contain ':' or digits.
C11_KeyInjective ==
  \A p, r \in Procs :
    (args[p] # NoArgs /\ args[r] # NoArgs) =>
      (cache_key[p] = cache_key[r] <=> args[p] = args[r])

\* tag "a1" with limit 1 against tag "a" with limit 11: the same characters
\* in the same order, keys apart
C11_Witness ==
  /\ args["p1"] = [tag |-> <<"a", "1">>, limit |-> 1]
  /\ args["p2"] = [tag |-> <<"a">>, limit |-> 11]
  /\ cache_key["p1"] # cache_key["p2"]

\* what the cache in use returns for key k, read off its state
Lookup(c, d, k) ==
  IF kind = "MemoryCache"
  THEN IF \E i \in 1..Len(c) : c[i].key = k
       THEN Some(c[CHOOSE i \in 1..Len(c) : c[i].key = k].val)
       ELSE None
  ELSE d

\* caller p runs its Cache.set in this step
SetStep(p) == pc[p] = "set_locked" /\ pc'[p] = "done"

\* C12: last writer wins. Right after a caller's set the cache holds that
\* caller's stations under its key, whatever another caller wrote there
\* before; and a step in which no caller sets never puts a new value under
\* any key.
C12_Step ==
  /\ \A p \in Procs :
       SetStep(p) => Lookup(cache', data', cache_key[p]) = Some(stations[p])
  /\ (\A p \in Procs : ~SetStep(p)) =>
       \A k \in AllKeys :
         \/ Lookup(cache', data', k) = Lookup(cache, data, k)
         \/ Lookup(cache', data', k) = None

C12_LastWriterWins == [][C12_Step]_vars

\* two callers with the same arguments both missed, both fetched, got
\* different station lists, and both wrote the cache
C12_Witness ==
  /\ args["p1"] = args["p2"] /\ args["p1"] # NoArgs
  /\ \A p \in Procs :
       /\ pc[p] = "done" /\ ~cached[p].present
       /\ reqs[p] = 1 /\ sets[p] = 1 /\ result[p].ok
  /\ result["p1"] # result["p2"]
  /\ kind = "MemoryCache"
  /\ \E p \in Procs : Lookup(cache, data, cache_key[p]) = Some(result[p].val)

\* C13: a caller holds the cache lock only inside get or set, never while
\* its request is being built or is in flight; and it is inside set only
\* with a received response that has been decoded into its stations.
C13_NoLockAcrossFetch ==
  \A p \in Procs :
    /\ lock = p => pc[p] \in {"get_locked", "set_locked"}
    /\ pc[p] \in {"miss", "fetching"} => lock # p
    /\ pc[p] \in {"set_wait", "set_locked"} =>
         /\ Completed(p)
         /\ Decode(response[p].body) = Some(stations[p])

\* one caller's request is in flight while the other is inside the cache
C13_Witness ==
  \E p, r \in Procs :
    /\ pc[p] = "fetching" /\ reqs[p] = 1
    /\ lock = r /\ r # p /\ pc[r] = "set_locked"

\* the direct callers inside the LRU structure
Inside == { p \in Procs : mpc[p] \in {"get_locked", "set_locked"} }

\* C14: at most one caller is inside the LRU structure and it is the lock
\* holder; whenever nobody is inside, contents and recency order equal those
\* of the same calls run one at a time in the order they took the lock.
C14_OneLock ==
  /\ Cardinality(Inside) <= 1
  /\ \A p \in Procs : p \in Inside <=> lock = p
  /\ Inside = {} => cache = seqCache

\* both callers have run calls, the cache is full and has evicted
C14_Witness ==
  /\ Inside = {} /\ ops = MaxOps
  /\ \A p \in Procs : mkey[p] # <<>>
  /\ Len(cache) = capacity /\ cache = seqCache
  /\ \E k \in AllKeys : lastAccess[k] > 0 /\ k \notin KeysOf(cache)

\* the other keys accessed since the most recent access of k
NewerThan(k) ==
  { j \in AllKeys \ {k} : lastAccess[j] > lastAccess[k] }

\* C15: (capacity >= 1) a get of k that follows a set of k, with fewer than
\* `capacity` other keys accessed since k's last access (so k cannot have
\* been evicted), returns exactly the value of the most recent set of k; a
\* set of a key already held puts the new value at the head of the recency
\* order and leaves every other entry, and their order, as they were.
C15_Step ==
  \A p \in Procs :
    /\ (mpc[p] = "get_locked" /\ mpc'[p] = "idle" /\ lastAccess[mkey[p]] > 0
          /\ Cardinality(NewerThan(mkey[p])) < capacity) =>
         mret'[p] = Some(lastVal[mkey[p]])
    /\ (mpc[p] = "set_locked" /\ mpc'[p] = "idle"
          /\ mkey[p] \in KeysOf(cache)) =>
         /\ cache'[1] = Entry(mkey[p], mval[p])
         /\ Len(cache') = Len(cache)
         /\ SubSeq(cache', 2, Len(cache')) =
              SelectSeq(cache, LAMBDA e : e.key # mkey[p])

C15_SetThenGet == [][C15_Step]_vars

\* a key set twice, to the empty list and then to two stations, and since
\* then another key accessed and this key read back with both stations in
\* order
C15_Witness ==
  \E p \in Procs, k \in AllKeys :
    /\ capacity = 2
    /\ mpc[p] = "idle" /\ mkey[p] = k /\ mret[p] = Some(<<"s1", "s2">>)
    /\ lastVal[k] = <<"s1", "s2">> /\ lastAccess[k] = 4
    /\ \E j \in AllKeys \ {k} : lastAccess[j] = 3

\* C19: a get of a key that is not held returns absent and leaves the
\* LruCache exactly as it was: same entries, same values, same order.
C19_Step ==
  \A p \in Procs :
    (mpc[p] = "get_locked" /\ mpc'[p] = "idle"
       /\ ~\E i \in 1..Len(cache) : cache[i].key = mkey[p]) =>
      /\ cache' = cache
      /\ mret'[p] = None

C19_MissChangesNothing == [][C19_Step]_vars

\* a caller whose last call was a get of a key never set, on a full cache
\* of capacity 2
C19_Witness ==
  \E p \in Procs :
    /\ mpc[p] = "idle" /\ mkey[p] # <<>> /\ lastAccess[mkey[p]] = 0
    /\ ~mret[p].present
    /\ capacity = 2 /\ Len(cache) = 2
    /\ mkey[p] \notin KeysOf(cache)

\* caller p is past its cache lookup
PastLookup(p) == pc[p] \in {"miss", "fetching", "set_wait", "set_locked", "done"}

\* C16 as stated: a call whose fetch failed has not called Cache.set, and a
\* later call with the same arguments misses again and issues a request.
C16_Original ==
  \A p \in Procs :
    /\ (response[p] # NoOutcome /\ FetchFailed(p)) => sets[p] = 0
    /\ (afterErr[p] # "none" /\ PastLookup(p)) =>
         /\ ~cached[p].present
         /\ pc[p] # "miss" => reqs[p] = 1

\* C16 amended: a call whose fetch failed has not called Cache.set; and a
\* later call with the same arguments misses again and issues a request,
\* provided no Cache.set has run between the start of the failed call and
\* the later call's lookup.
C16_Amended ==
  \A p \in Procs :
    /\ (response[p] # NoOutcome /\ FetchFailed(p)) => sets[p] = 0
    /\ (afterErr[p] = "quiet" /\ PastLookup(p)) =>
         /\ ~cached[p].present
         /\ pc[p] # "miss" => reqs[p] = 1

\* a call that came after a failed one with the same arguments, missed and
\* has fetched again, on a cache that holds another key
C16_Witness ==
  \E p \in Procs :
    /\ afterErr[p] = "quiet" /\ pc[p] = "done" /\ reqs[p] = 1
    /\ ~cached[p].present
    /\ kind = "MemoryCache" /\ Len(cache) >= 1

\* C17: with a MemoryCache, a value appears under a key only in the set of
\* a caller whose arguments compose that key, whose request was built from
\* those same arguments, and whose response had a success status and
\* decodes to that value; no query other than the caller's composes the
\* key; and a hit returns what is held under the key of its own arguments.
C17_Step ==
  kind = "MemoryCache" =>
    /\ \A k \in KeysOf(cache') :
         \/ Lookup(cache', data', k) = Lookup(cache, data, k)
         \/ \E p \in Procs :
              /\ SetStep(p)
              /\ k = CacheKey(args[p].tag, args[p].limit)
              /\ url[p] = SearchUrl(args[p].tag, args[p].limit)
              /\ Completed(p) /\ ~NonSuccess(p)
              /\ Lookup(cache', data', k) = Decode(response[p].body)
              /\ \A q \in Queries :
                   CacheKey(q.tag, q.limit) = k => q = args[p]
    /\ \A p \in Procs :
         (pc[p] = "get_locked" /\ pc'[p] = "done") =>
           /\ \A q \in Queries :
                CacheKey(q.tag, q.limit) = cache_key[p] => q = args[p]
           /\ Some(result'[p].val) = Lookup(cache, data, cache_key[p])

C17_OwnQueryOnly == [][C17_Step]_vars

\* two callers with different queries have both written; the cache holds
\* both keys with different station lists
C17_Witness ==
  /\ kind = "MemoryCache" /\ Len(cache) = 2
  /\ cache[1].val # cache[2].val
  /\ args["p1"] # args["p2"]
  /\ \A p \in Procs : pc[p] = "done" /\ sets[p] = 1
  /\ \A p \in Procs : Lookup(cache, data, cache_key[p]) = Some(result[p].val)

\* C18: with callers sharing one MemoryCache, completing requests and a fair
\* lock, every call that was made returns, and the lock, once held, is
\* released.
C18_EveryCallReturns ==
  /\ \A p \in Procs : (pc[p] # "idle") ~> (pc[p] = "done")
  /\ \A p \in Procs : (lock = p) ~> (lock = NoProc)

\* one caller waits to store its stations while the other holds the lock
\* for its lookup
C18_Witness ==
  \E p \in Procs, r \in Procs :
    /\ kind = "MemoryCache"
    /\ pc[p] = "set_wait" /\ pc[r] = "get_locked" /\ lock = r

====
